---------------------------- MODULE Spec2Model ----------------------------
(***************************************************************************)
(* A model of gvpreview (src/gvpreview.py): the composite "contact sheet"  *)
(* assembler.  Strings are TLA+ strings handled character by character,    *)
(* the raster is a pixel array, and make_composite is a state machine      *)
(* whose steps are the statements between which a KeyboardInterrupt can    *)
(* be delivered.                                                           *)
(***************************************************************************)
EXTENDS Integers, Sequences, FiniteSets, TLC

(***************************************************************************)
(* Bounds of the model.                                                    *)
(***************************************************************************)
\* longest directory listing / archive handed to one run
MaxFiles == 3
\* largest index, and largest rows and cols, tried on index2rowcol alone
MaxIndex == 10
MaxDim == 3
\* largest grid side, number of grid cells and cell side of a CompositeImage
\* pasted into directly
MaxGrid == 2
MaxCells == 4
MaxCell == 2

(***************************************************************************)
(* Python values: a call either returns a value or raises.                 *)
(***************************************************************************)
Return(v) == [exc |-> "", msg |-> "", val |-> v]
Raise(type, msg) == [exc |-> type, msg |-> msg, val |-> <<>>]

(***************************************************************************)
(* Characters and strings.  The text of the model is Latin-1: the code      *)
(* points U+0000 to U+00FF.                                                 *)
(***************************************************************************)
Char(s, i) == SubSeq(s, i, i)

CharAt(s, i) == IF 1 <= i /\ i <= Len(s) THEN Char(s, i) ELSE ""

\* the cased letters of Latin-1 that str.lower() changes, A to Z and U+00C0 to
\* U+00DE without the multiplication sign U+00D7, and what it makes of them
UpperCase == "ABCDEFGHIJKLMNOPQRSTUVWXYZÀÁÂÃÄÅÆÇÈÉÊËÌÍÎÏÐÑÒÓÔÕÖØÙÚÛÜÝÞ"
LowerCase == "abcdefghijklmnopqrstuvwxyzàáâãäåæçèéêëìíîïðñòóôõöøùúûüýþ"

\* str.lower() on one character
LowerChar(c) ==
    IF \E i \in 1..Len(UpperCase) : Char(UpperCase, i) = c
    THEN Char(LowerCase, CHOOSE i \in 1..Len(UpperCase) : Char(UpperCase, i) = c)
    ELSE c

RECURSIVE lower(_)
\* str.lower()
lower(s) == IF Len(s) = 0 THEN "" ELSE LowerChar(Head(s)) \o lower(Tail(s))

\* \d of the re module: the decimal digits of Latin-1
IsDigit(c) == c \in {"0", "1", "2", "3", "4", "5", "6", "7", "8", "9"}

\* the characters \s of the re module matches in a str pattern: space, tab,
\* line feed, carriage return, form feed, and then in this order the vertical
\* tab U+000B, the separators U+001C to U+001F, the next line U+0085 and the
\* no-break space U+00A0
WhiteSpace ==
    {" ", "\t", "\n", "\r", "\f", "", "", "", "", "", "", " "}

\* \S of the re module
IsNonSpace(c) == c # "" /\ c \notin WhiteSpace

DigitVal(c) ==
    CASE c = "0" -> 0 [] c = "1" -> 1 [] c = "2" -> 2 [] c = "3" -> 3
      [] c = "4" -> 4 [] c = "5" -> 5 [] c = "6" -> 6 [] c = "7" -> 7
      [] c = "8" -> 8 [] c = "9" -> 9

RECURSIVE int(_)
\* int() of a string of decimal digits
int(s) ==
    IF Len(s) = 0 THEN 0
    ELSE 10 * int(SubSeq(s, 1, Len(s) - 1)) + DigitVal(Char(s, Len(s)))

RECURSIVE DigitRun(_, _)
\* the number of characters a greedy \d* takes at position p
DigitRun(s, p) == IF IsDigit(CharAt(s, p)) THEN 1 + DigitRun(s, p + 1) ELSE 0

RECURSIVE NonSpaceRun(_, _)
\* the number of characters a greedy \S* takes at position p
NonSpaceRun(s, p) ==
    IF IsNonSpace(CharAt(s, p)) THEN 1 + NonSpaceRun(s, p + 1) ELSE 0

Max(S) == CHOOSE x \in S : \A y \in S : y <= x

(***************************************************************************)
(* XbyY2XY: re.match(r"(\d+)x(\d+)", xbyy, re.I).  The match is anchored   *)
(* at the start of the string only.                                        *)
(***************************************************************************)
XbyY2XY(xbyy) ==
    LET a == DigitRun(xbyy, 1)
        b == DigitRun(xbyy, a + 2)
    IN  IF a >= 1 /\ LowerChar(CharAt(xbyy, a + 1)) = "x" /\ b >= 1
        THEN Return(<<int(SubSeq(xbyy, 1, a)), int(SubSeq(xbyy, a + 2, a + 1 + b))>>)
        ELSE Raise("ValueError", xbyy \o " doesn't appear to be in XxY format")

(***************************************************************************)
(* index2rowcol                                                            *)
(***************************************************************************)
\* the range test written with > : index == rows*cols passes it
index2rowcol_offbyone(index, rows, cols, order) ==
    IF index > rows * cols
    THEN Raise("ValueError", "index is larger than it should be given rowsXcols")
    ELSE LET o == lower(order)
         IN  IF o = "colsright" \/ o = "colsleft"
             THEN IF rows = 0
                  THEN Raise("ZeroDivisionError", "integer modulo by zero")
                  ELSE Return(<<index % rows, index \div rows>>)
             ELSE IF o = "rowsdown"
             THEN Raise("NotImplementedError", "rowsdown not done yet")
             ELSE IF o = "rowsup"
             THEN Raise("NotImplementedError", "rowsup not done yet")
             ELSE Raise("ValueError", "Bad order")

\* rowsdown falling through to the column-major formula, as colsleft does
index2rowcol_rowsfallthrough(index, rows, cols, order) ==
    IF index >= rows * cols
    THEN Raise("ValueError", "index is larger than it should be given rowsXcols")
    ELSE LET o == lower(order)
         IN  IF o = "colsright" \/ o = "colsleft" \/ o = "rowsdown"
             THEN IF rows = 0
                  THEN Raise("ZeroDivisionError", "integer modulo by zero")
                  ELSE Return(<<index % rows, index \div rows>>)
             ELSE IF o = "rowsup"
             THEN Raise("NotImplementedError", "rowsup not done yet")
             ELSE Raise("ValueError", "Bad order")

index2rowcol(index, rows, cols, order) ==
    IF index >= rows * cols
    THEN Raise("ValueError", "index is larger than it should be given rowsXcols")
    ELSE LET o == lower(order)
         IN  IF o = "colsright" \/ o = "colsleft"
             THEN IF rows = 0
                  THEN Raise("ZeroDivisionError", "integer modulo by zero")
                  ELSE Return(<<index % rows, index \div rows>>)
             ELSE IF o = "rowsdown"
             THEN Raise("NotImplementedError", "rowsdown not done yet")
             ELSE IF o = "rowsup"
             THEN Raise("NotImplementedError", "rowsup not done yet")
             ELSE Raise("ValueError", "Bad order")

(***************************************************************************)
(* filename2dateidx: re.match of                                           *)
(*   (\S+)_(\d{4}_\d{2}_\d{2}_\d{2}_\d{2}_\d{2}(_\d{2})+)_(\d+).(jpg|jpeg|tif|tiff) *)
(* with re.I on the basename.  The groups are the ones of the first match  *)
(* in backtracking order: each greedy repetition as long as the rest of    *)
(* the pattern still matches.                                              *)
(***************************************************************************)
RECURSIVE LastSlash(_, _)
LastSlash(path, i) ==
    IF i = 0 THEN 0 ELSE IF Char(path, i) = "/" THEN i ELSE LastSlash(path, i - 1)

\* os.path.basename
basename(path) == SubSeq(path, LastSlash(path, Len(path)) + 1, Len(path))

\* \d{n} at position p
DigitsAt(s, p, n) == \A j \in 0..(n - 1) : IsDigit(CharAt(s, p + j))

\* \d{4}_\d{2}_\d{2}_\d{2}_\d{2}_\d{2} at position p: 19 characters
DateCoreAt(s, p) ==
    /\ DigitsAt(s, p, 4)
    /\ \A g \in 0..4 : CharAt(s, p + 4 + 3 * g) = "_" /\ DigitsAt(s, p + 5 + 3 * g, 2)

RECURSIVE GroupRun(_, _)
\* the number of repetitions a greedy (_\d{2})* takes at position p
GroupRun(s, p) ==
    IF CharAt(s, p) = "_" /\ DigitsAt(s, p + 1, 2) THEN 1 + GroupRun(s, p + 3) ELSE 0

\* (jpg|jpeg|tif|tiff) at position p: the text of the first alternative that matches
ExtAt(s, p) ==
    LET text(n) == IF p + n - 1 <= Len(s) THEN SubSeq(s, p, p + n - 1) ELSE ""
    IN  IF lower(text(3)) = "jpg" THEN text(3)
        ELSE IF lower(text(4)) = "jpeg" THEN text(4)
        ELSE IF lower(text(3)) = "tif" THEN text(3)
        ELSE IF lower(text(4)) = "tiff" THEN text(4)
        ELSE ""

\* _(\d+).(jpg|jpeg|tif|tiff) at position q: the lengths \d+ may take
TailMatches(s, q) ==
    IF CharAt(s, q) # "_" THEN {}
    ELSE {m \in 1..DigitRun(s, q + 1) :
             /\ CharAt(s, q + 1 + m) \notin {"", "\n"}
             /\ ExtAt(s, q + 2 + m) # ""}

\* the numbers of (_\d{2}) repetitions after a date core ending before position p
RepMatches(s, p) == {r \in 1..GroupRun(s, p) : TailMatches(s, p + 3 * r) # {}}

\* the lengths (\S+) may take
CamMatches(s) ==
    {i \in 1..NonSpaceRun(s, 1) :
        /\ CharAt(s, i + 1) = "_"
        /\ DateCoreAt(s, i + 2)
        /\ RepMatches(s, i + 21) # {}}

filename2dateidx(path) ==
    LET fn == basename(path)
    IN  IF CamMatches(fn) = {}
        THEN Raise("ValueError", path \o "  doesn't seem to be in the correct file naming format")
        ELSE LET i == Max(CamMatches(fn))
                 r == Max(RepMatches(fn, i + 21))
                 q == i + 21 + 3 * r
                 m == Max(TailMatches(fn, q))
             IN  Return([camname |-> SubSeq(fn, 1, i),
                         date |-> SubSeq(fn, i + 2, q - 1),
                         idx |-> int(SubSeq(fn, q + 1, q + m)) - 1,
                         ext |-> ExtAt(fn, q + 2 + m)])

(***************************************************************************)
(* Arrays: a shape (height, width, 3) and the samples of every pixel.      *)
(***************************************************************************)
Pixels(h, w) == (0..(h - 1)) \X (0..(w - 1))

\* np.zeros((h, w, 3), dtype=np.uint8)
zeros(h, w) == [shape |-> <<h, w, 3>>, px |-> [p \in Pixels(h, w) |-> <<0, 0, 0>>]]

\* slice.indices: where one bound of a slice lands on an axis of length len
SliceBound(v, len) ==
    IF v < 0 THEN (IF v + len < 0 THEN 0 ELSE v + len)
    ELSE IF v > len THEN len ELSE v

RECURSIVE str(_)
\* str() of a natural number
str(i) ==
    IF i < 10 THEN Char("0123456789", i + 1)
    ELSE str(i \div 10) \o Char("0123456789", (i % 10) + 1)

\* a shape as numpy writes it in its messages
ShapeStr(shape) ==
    "(" \o str(shape[1]) \o "," \o str(shape[2]) \o "," \o str(shape[3]) \o ")"

\* a[top:bottom, left:right, ...] = b with numpy's broadcasting rule
SetSlice(a, top, bottom, left, right, b) ==
    LET t == SliceBound(top, a.shape[1])
        l == SliceBound(left, a.shape[2])
        dh == IF SliceBound(bottom, a.shape[1]) > t
              THEN SliceBound(bottom, a.shape[1]) - t ELSE 0
        dw == IF SliceBound(right, a.shape[2]) > l
              THEN SliceBound(right, a.shape[2]) - l ELSE 0
        sh == b.shape[1]
        sw == b.shape[2]
    IN  IF (sh = dh \/ sh = 1) /\ (sw = dw \/ sw = 1)
        THEN Return([a EXCEPT !.px =
                 [p \in DOMAIN a.px |->
                     IF /\ t <= p[1] /\ p[1] < t + dh
                        /\ l <= p[2] /\ p[2] < l + dw
                     THEN b.px[<<IF sh = 1 THEN 0 ELSE p[1] - t,
                                 IF sw = 1 THEN 0 ELSE p[2] - l>>]
                     ELSE a.px[p]]])
        ELSE Raise("ValueError",
                   "could not broadcast input array from shape " \o ShapeStr(b.shape)
                       \o " into shape " \o ShapeStr(<<dh, dw, 3>>))

(***************************************************************************)
(* CompositeImage                                                          *)
(***************************************************************************)
CompositeImage(dims_, subdims) ==
    [dims |-> dims_, subdims |-> subdims,
     image |-> zeros(dims_[1] * subdims[1], dims_[2] * subdims[2])]

\* left = col * subdims[0]: the cell height used for the horizontal offset
set_subimage_swapped(self, pos_, image_) ==
    LET row == pos_[1]
        col == pos_[2]
        top == row * self.subdims[1]
        bottom == top + self.subdims[1]
        left == col * self.subdims[1]
        right == left + self.subdims[2]
        r == SetSlice(self.image, top, bottom, left, right, image_)
    IN  IF r.exc # "" THEN r ELSE Return([self EXCEPT !.image = r.val])

\* the CompositeImage after the call, or the exception the assignment raises
set_subimage(self, pos_, image_) ==
    LET row == pos_[1]
        col == pos_[2]
        top == row * self.subdims[1]
        bottom == top + self.subdims[1]
        left == col * self.subdims[2]
        right == left + self.subdims[2]
        r == SetSlice(self.image, top, bottom, left, right, image_)
    IN  IF r.exc # "" THEN r ELSE Return([self EXCEPT !.image = r.val])

(***************************************************************************)
(* The collaborators: imageio.imread, skimage's resize, glob.glob.         *)
(***************************************************************************)
\* a stored file: its name and its bytes (0: bytes no decoder reads; t > 0:
\* the bytes of a 2x2 picture of the single tone t)
File(name, bytes) == [name |-> name, bytes |-> bytes]

imread(file) ==
    IF file.bytes = 0
    THEN Raise("ValueError", "Could not find a format to read the specified file")
    ELSE Return([shape |-> <<2, 2, 3>>,
                 px |-> [p \in Pixels(2, 2) |-> <<file.bytes, file.bytes, file.bytes>>]])

\* downsize(img, size=size): an array of shape size x 3 of unsigned bytes, each
\* pixel sampled from the source (the interpolation filter is skimage's)
downsize(img, size) ==
    [shape |-> <<size[1], size[2], 3>>,
     px |-> [p \in Pixels(size[1], size[2]) |->
                img.px[<<(p[1] * img.shape[1]) \div size[1],
                         (p[2] * img.shape[2]) \div size[2]>>]]]

\* whether the pattern *.ext matches a name
GlobMatches(name, ext) ==
    /\ Len(name) >= Len(ext) + 1
    /\ Char(name, 1) # "."
    /\ SubSeq(name, Len(name) - Len(ext), Len(name)) = "." \o ext

RECURSIVE Select(_, _, _)
Select(listing, base, ext) ==
    IF listing = <<>> THEN <<>>
    ELSE (IF GlobMatches(Head(listing).name, ext)
          THEN <<[Head(listing) EXCEPT !.name = base \o "/" \o @]>>
          ELSE <<>>) \o Select(Tail(listing), base, ext)

\* glob.glob("{base}/*.{ext}"): the matching paths, in the order the directory
\* lists them
glob(dir, ext) == Select(dir.entries, dir.path, ext)

(***************************************************************************)
(* The inputs of one run of make_composite.                                *)
(***************************************************************************)
FilePool ==
    { File("C_2018_10_25_11_30_00_01_1.jpg", 10),
      File("C_2018_10_25_11_30_00_01_2.jpg", 20),
      File("C_2018_10_25_11_30_00_01_0.jpg", 40),
      File("C_2018_10_25_11_30_00_01_9.jpg", 50),
      File("notes.jpg", 60),
      File("C_2018_10_25_11_30_00_01_3.jpg", 0),
      File("C_2018_10_25_11_30_00_01_4.tif", 80) }

\* the directory listings and archives: files of the pool, each at most once, in
\* any order
Listings ==
    UNION {{s \in [1..len -> FilePool] : \A i, j \in 1..len : s[i] = s[j] => i = j} :
           len \in 0..MaxFiles}

DimsInputs == {"2x2", "1X2a", "x2"}
ResizeInputs == {"1x1", "1x"}
OrderInputs == {"colsright", "rowsdown"}

(***************************************************************************)
(* State.                                                                  *)
(*   input, dims, resize, format, order: the arguments of make_composite   *)
(*     (input: what the path names, a directory or a tar archive, and the  *)
(*     files in it in the order the system lists them); verbose is on      *)
(*   pc: the statement of make_composite that runs next                    *)
(*   superdim, subdim, comp, n, image, pos, e: make_composite's locals     *)
(*   files, k: gather_images' list and its place in it                     *)
(*   stdout, stderr: the lines printed; saved: the rasters handed to       *)
(*     imageio.imsave; raised: the exception that left make_composite      *)
(*   interrupts: for each KeyboardInterrupt delivered, in order, the       *)
(*     statement that was about to run                                     *)
(*   call, ret: the arguments and the result of a function called alone    *)
(*   lastAt: for each grid cell, the image last passed to set_subimage     *)
(*     for that cell (0: none)                                             *)
(***************************************************************************)
VARIABLES input, dims, resize, format, order, pc, superdim, subdim, comp, n,
          image, pos, e, files, k, stdout, stderr, saved, raised, interrupts,
          call, ret, lastAt

vars == <<input, dims, resize, format, order, pc, superdim, subdim, comp, n,
          image, pos, e, files, k, stdout, stderr, saved, raised, interrupts,
          call, ret, lastAt>>

args == <<input, dims, resize, format, order>>
harness == <<call, ret, lastAt>>

\* Image = namedtuple("Image", "filename camname date index ext pixels")
Image(filename, camname, date, index, ext, pixels) ==
    [filename |-> filename, camname |-> camname, date |-> date,
     index |-> index, ext |-> ext, pixels |-> pixels]

NoImage == Image("", "", "", 0, "", zeros(0, 0))

\* one printed line
Line(what, name, at, num) == [what |-> what, name |-> name, pos |-> at, num |-> num]

Locals0 ==
    /\ superdim = <<0, 0>> /\ subdim = <<0, 0>>
    /\ comp = CompositeImage(<<0, 0>>, <<0, 0>>)
    /\ n = 0 /\ image = NoImage /\ pos = <<0, 0>> /\ e = Return(<<>>)
    /\ files = <<>> /\ k = 0
    /\ stdout = <<>> /\ stderr = <<>> /\ saved = <<>>
    /\ raised = Return(<<>>) /\ interrupts = <<>>

Harness0 == call = <<>> /\ ret = Return(<<>>) /\ lastAt = <<>>

Init ==
    /\ input \in {[isdir |-> d, path |-> "in", entries |-> l] :
                    d \in BOOLEAN, l \in Listings}
    /\ dims \in DimsInputs
    /\ resize \in ResizeInputs
    /\ format = "jpg"
    /\ order \in OrderInputs
    /\ pc = "start"
    /\ Locals0
    /\ Harness0

(***************************************************************************)
(* make_composite, statement by statement.  pc names the statement that    *)
(* runs next:                                                              *)
(*   "start" 159-161, "input" 162, "dimensions" 163, "images" 164-165,     *)
(*   "zero" 166, then inside the try statement "open" 168 (the generator   *)
(*   is made), "next" 168 (the for loop asks for an item), "map" 169,      *)
(*   "paste" 170, "inserted" 171-173, "count" 174; the handlers "ctrlc"    *)
(*   176 and "except" 178; after the try statement "num_images" 179 and    *)
(*   "save" 180 (imsave is called), "return" 180 (imsave has the raster    *)
(*   and has yet to return); "done" after the return and "raised" after    *)
(*   an exception has left the function.                                   *)
(***************************************************************************)
\* lines 159-161: the two XbyY2XY calls and the canvas.  An exception here is
\* outside the try statement and leaves make_composite.
Setup ==
    /\ pc = "start"
    /\ LET sup == XbyY2XY(dims)
           sub == XbyY2XY(resize)
       IN  IF sup.exc # "" \/ sub.exc # ""
           THEN /\ raised' = (IF sup.exc # "" THEN sup ELSE sub)
                /\ pc' = "raised"
                /\ UNCHANGED <<superdim, subdim, comp>>
           ELSE /\ superdim' = sup.val
                /\ subdim' = sub.val
                /\ comp' = CompositeImage(sup.val, sub.val)
                /\ pc' = "input"
                /\ UNCHANGED raised
    /\ UNCHANGED <<args, n, image, pos, e, files, k, stdout, stderr, saved,
                   interrupts, harness>>

\* lines 162-166: the header lines, one statement at a time, and n = 0
Header ==
    /\ pc \in {"input", "dimensions", "images", "zero"}
    /\ CASE pc = "input" ->
              /\ stdout' = Append(stdout, Line("input:", input.path, <<>>, 0))
              /\ pc' = "dimensions"
              /\ UNCHANGED n
         [] pc = "dimensions" ->
              /\ stdout' = Append(stdout, Line("dimensions:", dims, <<>>, 0))
              /\ pc' = "images"
              /\ UNCHANGED n
         [] pc = "images" ->
              /\ stdout' = Append(stdout, Line("images:", "", <<>>, 0))
              /\ pc' = "zero"
              /\ UNCHANGED n
         [] pc = "zero" ->
              /\ n' = 0
              /\ pc' = "open"
              /\ UNCHANGED stdout
    /\ UNCHANGED <<args, superdim, subdim, comp, image, pos, e, files, k, stderr,
                   saved, raised, interrupts, harness>>

\* line 177: an exception raised inside the try statement is caught and bound
\* to e
Caught(exception) ==
    /\ e' = exception
    /\ pc' = "except"

\* line 178: the handler of "except Exception" around the whole for loop
ExceptException ==
    /\ pc = "except"
    /\ stdout' = Append(stdout, Line("Terminating early due to error:", e.msg, <<>>, 0))
    /\ pc' = "num_images"
    /\ UNCHANGED <<args, superdim, subdim, comp, n, image, pos, e, files, k,
                   stderr, saved, raised, interrupts, harness>>

\* lines 103-104 and 114: the generator starts, on the for loop's first request
GatherOpen ==
    /\ pc = "open"
    /\ files' = (IF input.isdir THEN glob(input, format)
                 ELSE input.entries)
    /\ k' = 1
    /\ pc' = "next"
    /\ UNCHANGED <<args, superdim, subdim, comp, n, image, pos, e, stdout, stderr,
                   saved, raised, interrupts, harness>>

\* lines 105-112 and 115-122: the generator runs to its next yield.  In the
\* directory branch the handler names entry, which is unbound there, so the
\* handler itself raises (an UnboundLocalError, with the text Python 3.11 gives
\* it) and the generator ends with it.
gather_images ==
    /\ pc = "next"
    /\ IF k > Len(files)
       THEN /\ pc' = "num_images"
            /\ UNCHANGED <<image, e, k, stderr>>
       ELSE LET file == files[k]
                parsed == filename2dateidx(file.name)
                pix == imread(file)
                failed == IF parsed.exc # "" THEN parsed ELSE pix
            IN  IF failed.exc # ""
                THEN IF input.isdir
                     THEN /\ Caught(Raise("UnboundLocalError",
                                "cannot access local variable 'entry' where it is not associated with a value"))
                          /\ UNCHANGED <<image, k, stderr>>
                     ELSE /\ stderr' = Append(stderr, Line("Skipping", file.name, <<>>, 0))
                          /\ k' = k + 1
                          /\ pc' = "next"
                          /\ UNCHANGED <<image, e>>
                ELSE IF parsed.val.ext = format
                THEN /\ image' = Image(file.name, parsed.val.camname, parsed.val.date,
                                       parsed.val.idx, parsed.val.ext, pix.val)
                     /\ k' = k + 1
                     /\ pc' = "map"
                     /\ UNCHANGED <<e, stderr>>
                ELSE /\ k' = k + 1
                     /\ pc' = "next"
                     /\ UNCHANGED <<image, e, stderr>>
    /\ UNCHANGED <<args, superdim, subdim, comp, n, pos, files, stdout, saved,
                   raised, interrupts, harness>>

\* line 169
Map ==
    /\ pc = "map"
    /\ LET r == index2rowcol(image.index, superdim[1], superdim[2], order)
       IN  IF r.exc # ""
           THEN Caught(r) /\ UNCHANGED pos
           ELSE pos' = r.val /\ pc' = "paste" /\ UNCHANGED e
    /\ UNCHANGED <<args, superdim, subdim, comp, n, image, files, k, stdout,
                   stderr, saved, raised, interrupts, harness>>

\* line 170
Paste ==
    /\ pc = "paste"
    /\ LET r == set_subimage(comp, pos, downsize(image.pixels, subdim))
       IN  IF r.exc # ""
           THEN Caught(r) /\ UNCHANGED comp
           ELSE comp' = r.val /\ pc' = "inserted" /\ UNCHANGED e
    /\ UNCHANGED <<args, superdim, subdim, n, image, pos, files, k, stdout,
                   stderr, saved, raised, interrupts, harness>>

\* lines 171-173: the line printed for a paste when verbose is on
PrintInserted ==
    /\ pc = "inserted"
    /\ stdout' = Append(stdout, Line("inserted", image.filename, pos, 0))
    /\ pc' = "count"
    /\ UNCHANGED <<args, superdim, subdim, comp, n, image, pos, e, files, k,
                   stderr, saved, raised, interrupts, harness>>

\* line 174
Count ==
    /\ pc = "count"
    /\ n' = n + 1
    /\ pc' = "next"
    /\ UNCHANGED <<args, superdim, subdim, comp, image, pos, e, files, k, stdout,
                   stderr, saved, raised, interrupts, harness>>

\* the statements of the try statement's body, lines 167-174
TryBody == {"open", "next", "map", "paste", "inserted", "count"}

\* make_composite without its "except KeyboardInterrupt" clause: the interrupt
\* leaves the function wherever it is delivered
KeyboardInterrupt_propagates ==
    /\ pc \notin {"done", "raised"}
    /\ interrupts' = Append(interrupts, pc)
    /\ raised' = Raise("KeyboardInterrupt", "")
    /\ pc' = "raised"
    /\ UNCHANGED <<args, superdim, subdim, comp, n, image, pos, e, files, k,
                   stdout, stderr, saved, harness>>

\* a KeyboardInterrupt is delivered when the statement pc names is about to
\* run, which is also inside the call before it once that call has had its
\* effect.  Inside the try statement's body line 175 catches it; anywhere else
\* (lines 159-166, the two handlers, lines 179-180) nothing does and it leaves
\* make_composite.
KeyboardInterrupt ==
    /\ pc \notin {"done", "raised"}
    /\ interrupts' = Append(interrupts, pc)
    /\ IF pc \in TryBody
       THEN pc' = "ctrlc" /\ UNCHANGED raised
       ELSE raised' = Raise("KeyboardInterrupt", "") /\ pc' = "raised"
    /\ UNCHANGED <<args, superdim, subdim, comp, n, image, pos, e, files, k,
                   stdout, stderr, saved, harness>>

\* line 176: the handler of "except KeyboardInterrupt"
ExceptKeyboardInterrupt ==
    /\ pc = "ctrlc"
    /\ stdout' = Append(stdout, Line("Terminating early due to Ctrl-C", "", <<>>, 0))
    /\ pc' = "num_images"
    /\ UNCHANGED <<args, superdim, subdim, comp, n, image, pos, e, files, k,
                   stderr, saved, raised, interrupts, harness>>

\* line 179
PrintNumImages ==
    /\ pc = "num_images"
    /\ stdout' = Append(stdout, Line("num_images:", "", <<>>, n))
    /\ pc' = "save"
    /\ UNCHANGED <<args, superdim, subdim, comp, n, image, pos, e, files, k,
                   stderr, saved, raised, interrupts, harness>>

\* line 180: imageio.imsave takes the raster
Imsave ==
    /\ pc = "save"
    /\ saved' = Append(saved, comp.image)
    /\ pc' = "return"
    /\ UNCHANGED <<args, superdim, subdim, comp, n, image, pos, e, files, k,
                   stdout, stderr, raised, interrupts, harness>>

\* line 180: imsave returns, and make_composite after it
ReturnNone ==
    /\ pc = "return"
    /\ pc' = "done"
    /\ UNCHANGED <<args, superdim, subdim, comp, n, image, pos, e, files, k,
                   stdout, stderr, saved, raised, interrupts, harness>>

Next ==
    \/ Setup
    \/ Header
    \/ GatherOpen
    \/ gather_images
    \/ Map
    \/ Paste
    \/ PrintInserted
    \/ Count
    \/ ExceptException
    \/ KeyboardInterrupt
    \/ ExceptKeyboardInterrupt
    \/ PrintNumImages
    \/ Imsave
    \/ ReturnNone

Spec == Init /\ [][Next]_vars

(***************************************************************************)
(* index2rowcol called alone.                                              *)
(***************************************************************************)
OrderNames ==
    {"colsright", "ColsRight", "colsleft", "COLSLEFT", "rowsdown", "RowsDown",
     "rowsup", "ROWSUP", "diagonal", ""}

InitMap ==
    /\ input = [isdir |-> FALSE, path |-> "", entries |-> <<>>]
    /\ dims = "" /\ resize = "" /\ format = "" /\ order = ""
    /\ pc = "call"
    /\ Locals0
    /\ call \in {[index |-> i, rows |-> r, cols |-> c, order |-> o] :
                    i \in (-1)..MaxIndex, r \in 0..MaxDim, c \in 0..MaxDim,
                    o \in OrderNames}
    /\ ret = Return(<<>>)
    /\ lastAt = <<>>

CallIndex2rowcol ==
    /\ pc = "call"
    /\ ret' = index2rowcol(call.index, call.rows, call.cols, call.order)
    /\ pc' = "returned"
    /\ UNCHANGED <<args, superdim, subdim, comp, n, image, pos, e, files, k,
                   stdout, stderr, saved, raised, interrupts, call, lastAt>>

NextMap == CallIndex2rowcol

SpecMap == InitMap /\ [][NextMap]_vars

(***************************************************************************)
(* A CompositeImage pasted into directly.                                  *)
(***************************************************************************)
\* the k-th picture of a cell's size: no two of its pixels alike, none black
TestImage(id, size) ==
    [shape |-> <<size[1], size[2], 3>>,
     px |-> [p \in Pixels(size[1], size[2]) |-> <<id, p[1] + 1, p[2] + 1>>]]

TestImageIds == {1, 2}

Cells(d) == (0..(d[1] - 1)) \X (0..(d[2] - 1))

InitCanvas ==
    /\ input = [isdir |-> FALSE, path |-> "", entries |-> <<>>]
    /\ dims = "" /\ resize = "" /\ format = "" /\ order = ""
    /\ pc = "canvas"
    /\ superdim \in {d \in (1..MaxGrid) \X (1..MaxGrid) : d[1] * d[2] <= MaxCells}
    /\ subdim \in (1..MaxCell) \X (1..MaxCell)
    /\ comp = CompositeImage(superdim, subdim)
    /\ n = 0 /\ image = NoImage /\ pos = <<0, 0>> /\ e = Return(<<>>)
    /\ files = <<>> /\ k = 0
    /\ stdout = <<>> /\ stderr = <<>> /\ saved = <<>>
    /\ raised = Return(<<>>) /\ interrupts = <<>>
    /\ call = <<>>
    /\ ret = Return(<<>>)
    /\ lastAt = [c \in Cells(superdim) |-> 0]

\* comp.set_subimage(pos, image), at a cell of the grid or one step outside it
CallSetSubimage ==
    /\ pc = "canvas"
    /\ \E at \in ((-1)..superdim[1]) \X ((-1)..superdim[2]), id \in TestImageIds :
          LET r == set_subimage(comp, at, TestImage(id, subdim))
          IN  /\ comp' = (IF r.exc # "" THEN comp ELSE r.val)
              /\ ret' = [r EXCEPT !.val = <<>>]
              /\ lastAt' = (IF at \in Cells(superdim)
                            THEN [lastAt EXCEPT ![at] = id] ELSE lastAt)
    /\ UNCHANGED <<args, pc, superdim, subdim, n, image, pos, e, files, k,
                   stdout, stderr, saved, raised, interrupts, call>>

NextCanvas == CallSetSubimage

SpecCanvas == InitCanvas /\ [][NextCanvas]_vars


(***************************************************************************)
(* What the claims speak of.                                               *)
(***************************************************************************)
Rows == superdim[1]
Cols == superdim[2]

Parses(f) == filename2dateidx(f.name).exc = ""
Decodes(f) == f.bytes # 0
IndexOf(f) == filename2dateidx(f.name).val.idx

\* the enumerator fails on f: its name or its bytes
GatherFails(f) == ~Parses(f) \/ ~Decodes(f)
\* f is read but is not of the requested format
Filtered(f) == ~GatherFails(f) /\ filename2dateidx(f.name).val.ext # format
\* f reaches make_composite's loop
Yielded(f) == ~GatherFails(f) /\ ~Filtered(f)
OrderSupported == order \in {"colsright", "colsleft"}
\* f fails at the mapping stage
MapFails(f) == Yielded(f) /\ (IndexOf(f) >= Rows * Cols \/ ~OrderSupported)
\* f has a cell of the grid
Good(f) == Yielded(f) /\ OrderSupported /\ 0 <= IndexOf(f) /\ IndexOf(f) < Rows * Cols

Lines(out, what) == {i \in 1..Len(out) : out[i].what = what}
Inserted(f) == \E i \in Lines(stdout, "inserted") : stdout[i].name = f.name
Skipped(f) == \E i \in Lines(stderr, "Skipping") : stderr[i].name = f.name

\* the run has returned and no interrupt was delivered
Completed == pc = "done" /\ interrupts = <<>>

\* C1: when the run completes, every item that has a cell is pasted although
\* items before it failed at the mapping stage (index beyond the grid, or a
\* fill order index2rowcol rejects): a mapping failure skips that item only.
C1_MappingFailureSkipsOnlyThatItem ==
    Completed =>
        \A i \in 1..Len(files) :
            (/\ Good(files[i])
             /\ \A j \in 1..(i - 1) :
                    Good(files[j]) \/ MapFails(files[j]) \/ Filtered(files[j]))
            => Inserted(files[i])

\* C2: in both input modes, when the run completes, a file with a bad name or
\* undecodable bytes has a "Skipping" line and every file with a cell that
\* comes after it is still pasted.
C2_BadFileSkippedEnumerationContinues ==
    Completed =>
        \A i \in 1..Len(files) :
            (\A j \in 1..(i - 1) :
                Good(files[j]) \/ GatherFails(files[j]) \/ Filtered(files[j]))
            => /\ Good(files[i]) => Inserted(files[i])
               /\ GatherFails(files[i]) => Skipped(files[i])

\* the tone of the file a printed path names
ToneOf(path) == (CHOOSE f \in FilePool : f.name = basename(path)).bytes

\* the raster the "inserted" lines describe: every pixel of a cell has the tone
\* of the file last inserted at that cell, and is black if none was
RasterOfLog ==
    [p \in Pixels(Rows * subdim[1], Cols * subdim[2]) |->
        LET cell == <<p[1] \div subdim[1], p[2] \div subdim[2]>>
            at == {i \in Lines(stdout, "inserted") : stdout[i].pos = cell}
        IN  IF at = {} THEN <<0, 0, 0>>
            ELSE <<ToneOf(stdout[Max(at)].name), ToneOf(stdout[Max(at)].name),
                   ToneOf(stdout[Max(at)].name)>>]

\* a paste made by line 170 whose line has not been printed: the run is at
\* lines 171-173, or its first KeyboardInterrupt arrived there
Unlogged == pc = "inserted" \/ (interrupts # <<>> /\ interrupts[1] = "inserted")

\* the raster of the pastes completed: the logged ones in their order, then
\* the unlogged one
RasterOfPastes ==
    [p \in Pixels(Rows * subdim[1], Cols * subdim[2]) |->
        IF Unlogged /\ pos = <<p[1] \div subdim[1], p[2] \div subdim[2]>>
        THEN <<ToneOf(image.filename), ToneOf(image.filename), ToneOf(image.filename)>>
        ELSE RasterOfLog[p]]

\* the run's first KeyboardInterrupt arrived between or during items, inside
\* the try statement
Cancelled == interrupts # <<>> /\ interrupts[1] \in TryBody

\* C3: the raster is handed to imsave at most once and only by line 180, after
\* the loop, and it is then exactly the canvas; a run that has returned has
\* saved it, and the canvas always holds exactly the pastes completed.  A run
\* leaves make_composite by an exception only before the canvas exists or by a
\* KeyboardInterrupt that arrived outside the loop (the raster is then saved
\* only if it arrived inside imsave, after imsave took it): a single
\* KeyboardInterrupt between or during items is caught and the run goes on to
\* save.  From that interrupt on no further item is processed: the enumeration
\* does not advance and neither the canvas nor the count changes.
C3_SavedOnceAfterLoop ==
    /\ [](/\ Len(saved) <= 1
          /\ saved # <<>> =>
                /\ pc \in {"return", "done", "raised"}
                /\ saved = <<comp.image>>
                /\ comp.image.shape = <<Rows * subdim[1], Cols * subdim[2], 3>>
          /\ pc \in {"return", "done"} => saved # <<>>
          /\ comp.image.px = RasterOfPastes
          /\ pc = "raised" =>
                \/ /\ raised.exc = "ValueError"
                   /\ comp = CompositeImage(<<0, 0>>, <<0, 0>>)
                   /\ interrupts = <<>>
                   /\ saved = <<>>
                \/ /\ raised.exc = "KeyboardInterrupt"
                   /\ interrupts # <<>>
                   /\ interrupts[Len(interrupts)] \notin TryBody
                   /\ saved # <<>> <=> interrupts[Len(interrupts)] = "return"
          /\ (Cancelled /\ Len(interrupts) = 1)
                => pc \in {"ctrlc", "num_images", "save", "return", "done"})
    /\ [][Cancelled' => (k' = k /\ comp' = comp /\ n' = n /\ image' = image)]_vars

\* a run interrupted between a second paste and the printing of its line has
\* returned with the canvas saved: both pastes are in the raster, one is logged
C3_Witness ==
    /\ pc = "done" /\ interrupts = <<"inserted">>
    /\ saved = <<comp.image>>
    /\ Cardinality(Lines(stdout, "inserted")) = 1
    /\ n = 1
    /\ comp.image.px # RasterOfLog

\* C4: a completed run over N files of which k have an unparseable name or an
\* index beyond the grid reports N-k pastes, prints k diagnostics (a
\* "Skipping" line or the error handler's line) and saves once.
C4_CountsPastesAndSkips ==
    (/\ Completed
     /\ OrderSupported
     /\ \A i \in 1..Len(files) :
            \/ Good(files[i])
            \/ ~Parses(files[i])
            \/ (Yielded(files[i]) /\ IndexOf(files[i]) >= Rows * Cols))
    => LET bad == Cardinality({i \in 1..Len(files) : ~Good(files[i])})
       IN  /\ n = Len(files) - bad
           /\ Cardinality(Lines(stderr, "Skipping"))
                + Cardinality(Lines(stdout, "Terminating early due to error:")) = bad
           /\ Len(saved) = 1

\* C5: index2rowcol with order "colsright" returns (index mod rows, index div
\* rows) for 0 <= index < rows*cols and raises the out-of-range ValueError for
\* index >= rows*cols.
C5_ColsrightColumnMajor ==
    (pc = "returned" /\ call.order = "colsright") =>
        /\ (0 <= call.index /\ call.index < call.rows * call.cols)
            => ret = Return(<<call.index % call.rows, call.index \div call.rows>>)
        /\ call.index >= call.rows * call.cols
            => /\ ret.exc = "ValueError"
               /\ ret.msg = "index is larger than it should be given rowsXcols"

\* index 5 of a 2 x 3 grid is the second row of the third column
C5_Witness ==
    /\ pc = "returned" /\ call.order = "colsright"
    /\ call.index = 5 /\ call.rows = 2 /\ call.cols = 3
    /\ ret.val = <<1, 2>>

\* C6: the raster keeps the shape (rows*h, cols*w, 3) and every cell of the
\* grid holds, pixel for pixel, the image last passed to set_subimage for that
\* cell, or zeros if there was none.
C6_CellsHoldLastPaste ==
    pc = "canvas" =>
        /\ comp.image.shape = <<Rows * subdim[1], Cols * subdim[2], 3>>
        /\ DOMAIN comp.image.px = Pixels(Rows * subdim[1], Cols * subdim[2])
        /\ \A c \in Cells(superdim) :
              \A q \in Pixels(subdim[1], subdim[2]) :
                 comp.image.px[<<c[1] * subdim[1] + q[1], c[2] * subdim[2] + q[2]>>]
                    = IF lastAt[c] = 0 THEN <<0, 0, 0>>
                      ELSE TestImage(lastAt[c], subdim).px[q]

\* a 2 x 2 grid of 1 x 2 cells with two cells pasted and one still black
C6_Witness ==
    /\ pc = "canvas" /\ superdim = <<2, 2>> /\ subdim = <<1, 2>>
    /\ lastAt[<<0, 0>>] = 2 /\ lastAt[<<1, 1>>] = 1 /\ lastAt[<<0, 1>>] = 0
    /\ comp.image.px[<<0, 1>>] = <<2, 1, 2>>
    /\ comp.image.px[<<1, 3>>] = <<1, 1, 2>>
    /\ comp.image.px[<<0, 2>>] = <<0, 0, 0>>

InRange == 0 <= call.index /\ call.index < call.rows * call.cols

\* C7 as stated: for an in-range index "rowsdown" and "rowsup" raise
\* NotImplementedError, "colsleft" returns the position of "colsright", and
\* every other order string raises.
C7_OtherOrderStringsFail ==
    (pc = "returned" /\ InRange) =>
        /\ call.order \in {"rowsdown", "rowsup"} => ret.exc = "NotImplementedError"
        /\ call.order = "colsleft"
            => ret = Return(<<call.index % call.rows, call.index \div call.rows>>)
        /\ call.order \notin {"colsright", "colsleft", "rowsdown", "rowsup"}
            => ret.exc # ""

\* the order name an order string is a spelling of, letter case apart
Spelling(o) ==
    CASE o \in {"colsright", "ColsRight"} -> "colsright"
      [] o \in {"colsleft", "COLSLEFT"} -> "colsleft"
      [] o \in {"rowsdown", "RowsDown"} -> "rowsdown"
      [] o \in {"rowsup", "ROWSUP"} -> "rowsup"
      [] OTHER -> "none"

\* C7 amended: order names are compared without regard to letter case.  For
\* an in-range index a spelling of "rowsdown" or "rowsup" raises
\* NotImplementedError, a spelling of "colsleft" or "colsright" returns
\* (index mod rows, index div rows), and every other string raises ValueError.
C7_OrdersUpToCase ==
    (pc = "returned" /\ InRange) =>
        /\ Spelling(call.order) \in {"rowsdown", "rowsup"}
            => ret.exc = "NotImplementedError"
        /\ Spelling(call.order) \in {"colsleft", "colsright"}
            => ret = Return(<<call.index % call.rows, call.index \div call.rows>>)
        /\ Spelling(call.order) = "none" => ret.exc = "ValueError"

\* "RowsDown" with an in-range index raises NotImplementedError
C7_Witness ==
    /\ pc = "returned" /\ InRange
    /\ call.order = "RowsDown"
    /\ ret.exc = "NotImplementedError"

\* the grammar ^\d+x\d+$, letter case apart
XxYGrammar(s) ==
    LET a == DigitRun(s, 1)
        b == DigitRun(s, a + 2)
    IN  a >= 1 /\ CharAt(s, a + 1) \in {"x", "X"} /\ b >= 1 /\ a + 1 + b = Len(s)

\* C8: when no interrupt is delivered, with a dims or resize string outside the
\* grammar the run ends in the configuration error before the enumerator is
\* started and nothing is saved; strings inside the grammar are parsed to their
\* two integers.
C8_MalformedXxYAborts ==
    interrupts = <<>> =>
    /\ (~XxYGrammar(dims) \/ ~XxYGrammar(resize))
        => /\ pc \in {"start", "raised"}
           /\ pc = "raised" => raised.exc = "ValueError"
           /\ k = 0 /\ saved = <<>> /\ Lines(stdout, "inserted") = {}
    /\ (XxYGrammar(dims) /\ XxYGrammar(resize) /\ pc # "start")
        => /\ pc # "raised"
           /\ dims = "2x2" => superdim = <<2, 2>>
           /\ resize = "1x1" => subdim = <<1, 1>>

\* the characters of the names in code point order: two of them compare as
\* their places in this string do
CodePointOrder == "-./0123456789ABCDEFGHIJKLMNOPQRSTUVWXYZ_abcdefghijklmnopqrstuvwxyz"

Ord(c) == CHOOSE i \in 1..Len(CodePointOrder) : Char(CodePointOrder, i) = c

RECURSIVE StrLess(_, _)
\* a < b on Python strings
StrLess(a, b) ==
    IF Len(b) = 0 THEN FALSE
    ELSE IF Len(a) = 0 THEN TRUE
    ELSE IF Head(a) = Head(b) THEN StrLess(Tail(a), Tail(b))
    ELSE Ord(Head(a)) < Ord(Head(b))

\* C9: for directory input the files are pasted in ascending filename order.
C9_DirectoryPastesAscending ==
    input.isdir =>
        \A i, j \in Lines(stdout, "inserted") :
            i < j => StrLess(stdout[i].name, stdout[j].name)

\* C10: set_subimage is only ever called for a cell of the grid, and an image
\* whose index is outside 0 <= index < rows*cols (sequence number 0 included)
\* is never pasted and does not end the loop.
C10_PastesTargetGridCells ==
    /\ pc = "paste" => pos \in Cells(superdim)
    /\ \A i \in Lines(stdout, "inserted") : stdout[i].pos \in Cells(superdim)
    /\ Completed =>
          \A i \in 1..Len(files) :
              (/\ Good(files[i])
               /\ \A j \in 1..(i - 1) :
                    \/ Good(files[j]) \/ Filtered(files[j])
                    \/ (Yielded(files[j]) /\ OrderSupported))
              => Inserted(files[i])

=============================================================================
